---- MODULE Spec2Model ----
(***************************************************************************)
(* Model of the study-session controller of yew-study: the Yew component   *)
(* `Study` (src/src/pages/study.rs), its message handler `update`, the     *)
(* asynchronous tasks it spawns against the remote study service, and the  *)
(* user-facing surface `view` that decides which messages a user can send. *)
(*                                                                         *)
(*   spec.md name        code name                                         *)
(*   BatchFetched        Msg::UpdateList                                   *)
(*   DraftAnswerChanged  Msg::UpdateAnswer                                 *)
(*   SubmitRequested     Msg::CheckAnswer                                  *)
(*   VerdictReceived     Msg::ShowAnswerResponse                           *)
(*   AdvanceRequested    Msg::NextChallenge                                *)
(*   OperationFailed     Msg::FetchError                                   *)
(*   Presenting / ShowingOutcome / Failed                                  *)
(*                       StudyMode::Challenge / Outcome / Error            *)
(*                                                                         *)
(* Yew runs create, the first view and rendered(first_render = true) in    *)
(* one scheduler pass, and it runs `update` to completion (followed by the *)
(* re-render) as soon as a message is sent from a DOM callback or from a   *)
(* spawned future.  One action of the model is therefore one message       *)
(* processed, together with the event that produced it.                    *)
(***************************************************************************)
EXTENDS Naturals, Sequences, FiniteSets

\* ------------------------------------------------------------------ bounds
\* Longest batch the remote service answers a fetch with.
MaxBatch == 3
\* Most asynchronous tasks in flight at one time.
MaxTasks == 2
\* Most hints the Prompt component is followed to have on display.
MaxShown == 4

\* ------------------------------------------------------- program constants
\* load_next_vocab_list(link, 1, 5): the subject id and the limit.
AwesomeId == 1
Limit == 5

\* ------------------------------------------------------------- data values
\* Challenge::default(): numbers zero, text empty.
DefaultChallenge == [vocab_id |-> 0, vocab_study_id |-> 0, prompt |-> ""]

\* The challenges the remote service can deliver.
Challenges ==
    { [vocab_id |-> 1, vocab_study_id |-> 1, prompt |-> "cat"],
      [vocab_id |-> 2, vocab_study_id |-> 2, prompt |-> "dog"] }

\* Sequences over S of length 0..n.
RECURSIVE SeqsUpTo(_, _)
SeqsUpTo(S, n) ==
    IF n = 0 THEN { <<>> }
    ELSE LET shorter == SeqsUpTo(S, n - 1)
         IN  shorter \cup { Append(s, x) : s \in { t \in shorter : Len(t) = n - 1 }, x \in S }

\* Ok(wrapper.data.get_study_list): the lists the service answers with.  The
\* service does not repeat a challenge within a batch; with two challenges to
\* draw from, the lists followed are those whose neighbours differ.
Batches ==
    { b \in SeqsUpTo(Challenges, MaxBatch) :
        \A k \in 1..Len(b) : k < Len(b) => b[k] # b[k + 1] }

\* target.value() of the answer input.
Texts == { "", "gato" }

\* Ok(wrapper.data.response_prompt): the verdict texts of the service.
Verdicts == { "Correct!", "Wrong" }

\* FetchError::to_string(): the messages of a rejected operation.
Errors == { "network down", "malformed response" }

StudyModes == { "Challenge", "Outcome", "Error" }

\* The challenge as components/prompt.rs reads it: the four hint fields.
\* (first_lang and num_learning_words are only displayed.)
NoHintChallenge == [pos |-> "", infinitive |-> "", hint |-> "", user_notes |-> ""]

\* The challenges a parent can hand to the Prompt: each field empty or not.
HintChallenges ==
    [pos : { "", "noun" }, infinitive : { "", "ser" },
     hint : { "", "animal" }, user_notes : { "", "mine" }]

\* ------------------------------------------------------------------- state
VARIABLES
    study_mode,     \* Study.study_mode
    iterator,       \* Study.iterator: the challenges not yet taken
    challenge,      \* Study.challenge
    prompt,         \* Study.prompt
    answer,         \* Study.answer
    err_msg,        \* Study.err_msg
    first_render,   \* TRUE until rendered(first_render = true) has run
    tasks,          \* the spawned futures still in flight, in start order
    last,           \* history: the message processed last
    batch,          \* history: the list of the UpdateList processed last
    advSince,       \* history: NextChallenge messages processed since then
    batchDone,      \* history: some UpdateList has been processed
    props,          \* Prompt.props.challenge
    available_hints,\* Prompt.available_hints
    display_hints,  \* Prompt.display_hints
    plast           \* history: what the Prompt did last

component == <<study_mode, iterator, challenge, prompt, answer, err_msg>>
history == <<last, batch, advSince, batchDone>>
hintvars == <<props, available_hints, display_hints, plast>>
studyvars == <<study_mode, iterator, challenge, prompt, answer, err_msg,
               first_render, tasks, last, batch, advSince, batchDone>>
vars == <<study_mode, iterator, challenge, prompt, answer, err_msg,
          first_render, tasks, last, batch, advSince, batchDone,
          props, available_hints, display_hints, plast>>

\* ------------------------------------------------------------ the iterator
\* IntoIter::next().unwrap_or_default(): the head, or the zero value.
next_or_default(it) == IF it = <<>> THEN DefaultChallenge ELSE Head(it)

\* What IntoIter::next() leaves in the iterator.
after_next(it) == IF it = <<>> THEN <<>> ELSE Tail(it)

\* self.iterator.clone().count()
count(it) == Len(it)

\* ------------------------------------------------------------- async tasks
FetchTask(awesome_id, limit) ==
    [op |-> "fetch", awesome_id |-> awesome_id, limit |-> limit,
     answer |-> "", challenge |-> DefaultChallenge]

SubmitTask(ans, ch) ==
    [op |-> "submit", awesome_id |-> 0, limit |-> 0,
     answer |-> ans, challenge |-> ch]

\* spawn_local of the fetch future: one more task in flight.
load_next_vocab_list(ts, awesome_id, limit) ==
    Append(ts, FetchTask(awesome_id, limit))

\* spawn_local of the submit future, which owns clones of answer and challenge.
get_answer_checked(ts, ans, ch) ==
    Append(ts, SubmitTask(ans, ch))

\* The tasks in flight once task i has completed.
Remove(ts, i) == SubSeq(ts, 1, i - 1) \o SubSeq(ts, i + 1, Len(ts))

\* ---------------------------------------------------------------- create
\* Study::create
create_Study ==
    /\ study_mode = "Challenge"
    /\ iterator = <<>>
    /\ challenge = DefaultChallenge
    /\ prompt = ""
    /\ answer = ""
    /\ err_msg = ""
    /\ first_render = TRUE
    /\ tasks = <<>>
    /\ last = [msg |-> "none", text |-> "", from |-> "Challenge", left |-> 0, sched |-> "none",
               pos |-> 0, by |-> "none", prev |-> "none", prevpos |-> 0,
               rep |-> FALSE, fresh |-> TRUE, wasfresh |-> TRUE, flip |-> FALSE]
    /\ batch = <<>>
    /\ advSince = 0
    /\ batchDone = FALSE

\* Prompt::create with ctx.props().challenge = c
create_Prompt(c) ==
    /\ props = c
    /\ available_hints = <<>>
    /\ display_hints = <<>>
    /\ plast = "create"

\* The study page: Study is created; the page renders no Prompt.
Init ==
    /\ create_Study
    /\ create_Prompt(NoHintChallenge)

\* ------------------------------------------------ Study::update, per message
\* Each handler is given ts, the tasks in flight when the message is processed
\* (without the task whose completion sent the message), and leaves in tasks
\* what is in flight afterwards.

\* A refill that merges with what is left of the previous batch.
UpdateList_merge(res, ts) ==
    /\ iterator' = after_next(res) \o iterator
    /\ challenge' = next_or_default(res)
    /\ prompt' = next_or_default(res).prompt
    /\ err_msg' = ""
    /\ study_mode' = "Challenge"
    /\ tasks' = ts
    /\ UNCHANGED answer

\* A refill that is ignored while challenges of an earlier batch are left.
UpdateList_first_wins(res, ts) ==
    IF count(iterator) > 0
    THEN /\ tasks' = ts
         /\ UNCHANGED <<study_mode, iterator, challenge, prompt, answer, err_msg>>
    ELSE /\ iterator' = after_next(res)
         /\ challenge' = next_or_default(res)
         /\ prompt' = next_or_default(res).prompt
         /\ err_msg' = ""
         /\ study_mode' = "Challenge"
         /\ tasks' = ts
         /\ UNCHANGED answer

\* A refill that does not take the page away from a verdict on display.
UpdateList_keeps_outcome(res, ts) ==
    /\ iterator' = after_next(res)
    /\ challenge' = next_or_default(res)
    /\ prompt' = IF study_mode = "Outcome" THEN prompt ELSE next_or_default(res).prompt
    /\ err_msg' = ""
    /\ study_mode' = IF study_mode = "Outcome" THEN "Outcome" ELSE "Challenge"
    /\ tasks' = ts
    /\ UNCHANGED answer

\* Msg::UpdateList(res)
UpdateList(res, ts) ==
    /\ iterator' = after_next(res)
    /\ challenge' = next_or_default(res)
    /\ prompt' = next_or_default(res).prompt
    /\ err_msg' = ""
    /\ study_mode' = "Challenge"
    /\ tasks' = ts
    /\ UNCHANGED answer

\* A draft edit that ignores an emptied input.
UpdateAnswer_skip_empty(text, ts) ==
    /\ answer' = IF text = "" THEN answer ELSE text
    /\ err_msg' = ""
    /\ tasks' = ts
    /\ UNCHANGED <<study_mode, iterator, challenge, prompt>>

\* Msg::UpdateAnswer(answer)
UpdateAnswer(text, ts) ==
    /\ answer' = text
    /\ err_msg' = ""
    /\ tasks' = ts
    /\ UNCHANGED <<study_mode, iterator, challenge, prompt>>

\* A submit that also clears the draft.
CheckAnswer_clear_draft(ts) ==
    /\ tasks' = get_answer_checked(ts, answer, challenge)
    /\ err_msg' = ""
    /\ answer' = ""
    /\ UNCHANGED <<study_mode, iterator, challenge, prompt>>

\* Msg::CheckAnswer
CheckAnswer(ts) ==
    /\ tasks' = get_answer_checked(ts, answer, challenge)
    /\ err_msg' = ""
    /\ UNCHANGED <<study_mode, iterator, challenge, prompt, answer>>

\* A verdict that switches the mode but never stores the text.
ShowAnswerResponse_no_prompt(text, ts) ==
    /\ err_msg' = ""
    /\ study_mode' = "Outcome"
    /\ tasks' = ts
    /\ UNCHANGED <<iterator, challenge, prompt, answer>>

\* A verdict that is stored as the prompt without leaving the challenge page.
ShowAnswerResponse_keep_mode(text, ts) ==
    /\ prompt' = text
    /\ err_msg' = ""
    /\ tasks' = ts
    /\ UNCHANGED <<study_mode, iterator, challenge, answer>>

\* Msg::ShowAnswerResponse(prompt)
ShowAnswerResponse(text, ts) ==
    /\ prompt' = text
    /\ err_msg' = ""
    /\ study_mode' = "Outcome"
    /\ tasks' = ts
    /\ UNCHANGED <<iterator, challenge, answer>>

\* An advance that refills one challenge too early.
NextChallenge_early(ts) ==
    IF count(iterator) <= 1
    THEN /\ tasks' = load_next_vocab_list(ts, AwesomeId, Limit)
         /\ UNCHANGED <<study_mode, iterator, challenge, prompt, answer, err_msg>>
    ELSE /\ challenge' = next_or_default(iterator)
         /\ iterator' = after_next(iterator)
         /\ prompt' = next_or_default(iterator).prompt
         /\ err_msg' = ""
         /\ study_mode' = "Challenge"
         /\ tasks' = ts
         /\ UNCHANGED answer

\* An advance that reads the head of the queue without removing it.
NextChallenge_peek(ts) ==
    IF count(iterator) = 0
    THEN /\ tasks' = load_next_vocab_list(ts, AwesomeId, Limit)
         /\ UNCHANGED <<study_mode, iterator, challenge, prompt, answer, err_msg>>
    ELSE /\ challenge' = next_or_default(iterator)
         /\ prompt' = next_or_default(iterator).prompt
         /\ err_msg' = ""
         /\ study_mode' = "Challenge"
         /\ tasks' = ts
         /\ UNCHANGED <<iterator, answer>>

\* An advance that starts no second fetch while one is in flight.
NextChallenge_dedup(ts) ==
    IF count(iterator) = 0
    THEN /\ tasks' = IF \E i \in 1..Len(ts) : ts[i].op = "fetch"
                     THEN ts
                     ELSE load_next_vocab_list(ts, AwesomeId, Limit)
         /\ UNCHANGED <<study_mode, iterator, challenge, prompt, answer, err_msg>>
    ELSE /\ challenge' = next_or_default(iterator)
         /\ iterator' = after_next(iterator)
         /\ prompt' = next_or_default(iterator).prompt
         /\ err_msg' = ""
         /\ study_mode' = "Challenge"
         /\ tasks' = ts
         /\ UNCHANGED answer

\* An advance that empties the draft when it has to refill.
NextChallenge_blank_draft(ts) ==
    IF count(iterator) = 0
    THEN /\ tasks' = load_next_vocab_list(ts, AwesomeId, Limit)
         /\ answer' = ""
         /\ UNCHANGED <<study_mode, iterator, challenge, prompt, err_msg>>
    ELSE /\ challenge' = next_or_default(iterator)
         /\ iterator' = after_next(iterator)
         /\ prompt' = next_or_default(iterator).prompt
         /\ err_msg' = ""
         /\ study_mode' = "Challenge"
         /\ tasks' = ts
         /\ UNCHANGED answer

\* Msg::NextChallenge
NextChallenge(ts) ==
    IF count(iterator) = 0
    THEN /\ tasks' = load_next_vocab_list(ts, AwesomeId, Limit)
         /\ UNCHANGED <<study_mode, iterator, challenge, prompt, answer, err_msg>>
    ELSE /\ challenge' = next_or_default(iterator)
         /\ iterator' = after_next(iterator)
         /\ prompt' = next_or_default(iterator).prompt
         /\ err_msg' = ""
         /\ study_mode' = "Challenge"
         /\ tasks' = ts
         /\ UNCHANGED answer

\* A failure that switches to the error page without storing the message.
FetchError_drop_text(err, ts) ==
    /\ study_mode' = "Error"
    /\ tasks' = ts
    /\ UNCHANGED <<iterator, challenge, prompt, answer, err_msg>>

\* A failure that starts the fetch again by itself.
FetchError_retry(err, ts) ==
    /\ err_msg' = err
    /\ study_mode' = "Error"
    /\ tasks' = load_next_vocab_list(ts, AwesomeId, Limit)
    /\ UNCHANGED <<iterator, challenge, prompt, answer>>

\* Msg::FetchError(err)
FetchError(err, ts) ==
    /\ err_msg' = err
    /\ study_mode' = "Error"
    /\ tasks' = ts
    /\ UNCHANGED <<iterator, challenge, prompt, answer>>

\* ------------------------------------------------------------ Study::view
\* An error page that keeps the answer input.
ShowsAnswerInput_in_error == study_mode \in { "Challenge", "Error" }

\* What the rendered page offers, by study_mode.
ShowsAnswerInput == study_mode = "Challenge"   \* <input> with oninput/onblur/onkeypress
ShowsCheckButton == study_mode = "Challenge"   \* <button> "Check", and Enter in the input
ShowsNextButton == study_mode = "Outcome"      \* <button> "Next"

\* The text the page displays.
Displayed ==
    CASE study_mode = "Challenge" -> prompt
      [] study_mode = "Outcome" -> prompt
      [] study_mode = "Error" -> err_msg

\* --------------------------------------------------------------- history
\* The message just processed: its name, its text, the mode and the number of
\* untaken challenges it was processed with, and the task it spawned; the
\* place in tasks (pos, 0 for a user event) and the kind (by) of the task whose
\* completion sent it; the message processed before it (prev, prevpos) and
\* whether that was the same message with the same text (rep); and whether no
\* UpdateList has been processed since a fetch was last spawned (fresh), and
\* whether that was so before this message (wasfresh); and a mark that changes
\* with every completion of the oldest task in flight (flip).
Record(m, text, ts, i) ==
    LET spawned == IF Len(tasks') > Len(ts) THEN tasks'[Len(tasks')].op ELSE "none"
    IN  last' = [msg |-> m, text |-> text, from |-> study_mode, left |-> count(iterator),
                 sched |-> spawned,
                 pos |-> i,
                 by |-> IF i = 0 THEN "user" ELSE tasks[i].op,
                 prev |-> last.msg,
                 prevpos |-> last.pos,
                 rep |-> (last.msg = m /\ last.text = text),
                 fresh |-> IF spawned = "fetch" THEN TRUE
                           ELSE IF m = "UpdateList" THEN FALSE
                           ELSE last.fresh,
                 wasfresh |-> last.fresh,
                 flip |-> IF i = 1 THEN ~last.flip ELSE last.flip]

\* ---------------------------------------------------------------- actions
\* Study::rendered with first_render = true.
Rendered ==
    /\ first_render
    /\ first_render' = FALSE
    /\ tasks' = load_next_vocab_list(tasks, AwesomeId, Limit)
    /\ UNCHANGED <<component, history>>
    /\ UNCHANGED hintvars

\* The user edits the answer input: oninput, onblur or a key other than Enter.
UserInput ==
    /\ ~first_render
    /\ ShowsAnswerInput
    /\ \E text \in Texts :
          /\ UpdateAnswer(text, tasks)
          /\ Record("UpdateAnswer", text, tasks, 0)
    /\ UNCHANGED <<first_render, batch, advSince, batchDone>>
    /\ UNCHANGED hintvars

\* The user clicks "Check" or presses Enter in the answer input.
UserCheck ==
    /\ ~first_render
    /\ ShowsCheckButton
    /\ Len(tasks) < MaxTasks
    /\ CheckAnswer(tasks)
    /\ Record("CheckAnswer", "", tasks, 0)
    /\ UNCHANGED <<first_render, batch, advSince, batchDone>>
    /\ UNCHANGED hintvars

\* The user clicks "Next".
UserNext ==
    /\ ~first_render
    /\ ShowsNextButton
    /\ count(iterator) = 0 => Len(tasks) < MaxTasks
    /\ NextChallenge(tasks)
    /\ Record("NextChallenge", "", tasks, 0)
    /\ advSince' = advSince + 1
    /\ UNCHANGED <<first_render, batch, batchDone>>
    /\ UNCHANGED hintvars

\* A fetch future resolves Ok(list) and sends Msg::UpdateList(list).
FetchOk ==
    \E i \in 1..Len(tasks) : \E res \in Batches :
        /\ tasks[i].op = "fetch"
        /\ Len(res) <= tasks[i].limit
        /\ UpdateList(res, Remove(tasks, i))
        /\ Record("UpdateList", "", Remove(tasks, i), i)
        /\ batch' = res
        /\ advSince' = 0
        /\ batchDone' = TRUE
        /\ UNCHANGED first_render
        /\ UNCHANGED hintvars

\* A fetch future that swallows its error and sends nothing.
FetchErr_silent ==
    \E i \in 1..Len(tasks) :
        /\ tasks[i].op = "fetch"
        /\ tasks' = Remove(tasks, i)
        /\ UNCHANGED <<component, first_render, history>>
        /\ UNCHANGED hintvars

\* A fetch future resolves Err(e) and sends Msg::FetchError(e.to_string()).
FetchErr ==
    \E i \in 1..Len(tasks) : \E e \in Errors :
        /\ tasks[i].op = "fetch"
        /\ FetchError(e, Remove(tasks, i))
        /\ Record("FetchError", e, Remove(tasks, i), i)
        /\ UNCHANGED <<first_render, batch, advSince, batchDone>>
        /\ UNCHANGED hintvars

\* A submit future resolves Ok(verdict) and sends Msg::ShowAnswerResponse(verdict).
SubmitOk ==
    \E i \in 1..Len(tasks) : \E v \in Verdicts :
        /\ tasks[i].op = "submit"
        /\ ShowAnswerResponse(v, Remove(tasks, i))
        /\ Record("ShowAnswerResponse", v, Remove(tasks, i), i)
        /\ UNCHANGED <<first_render, batch, advSince, batchDone>>
        /\ UNCHANGED hintvars

\* A submit future that swallows its error and sends nothing.
SubmitErr_silent ==
    \E i \in 1..Len(tasks) :
        /\ tasks[i].op = "submit"
        /\ tasks' = Remove(tasks, i)
        /\ UNCHANGED <<component, first_render, history>>
        /\ UNCHANGED hintvars

\* A submit future resolves Err(e) and sends Msg::FetchError(e.to_string()).
SubmitErr ==
    \E i \in 1..Len(tasks) : \E e \in Errors :
        /\ tasks[i].op = "submit"
        /\ FetchError(e, Remove(tasks, i))
        /\ Record("FetchError", e, Remove(tasks, i), i)
        /\ UNCHANGED <<first_render, batch, advSince, batchDone>>
        /\ UNCHANGED hintvars

\* ------------------------------------------------------ the Prompt component
\* format!("    <label>: {}", value): a hint line, kept as label and value.
HintLine(label, value) == <<label, value>>

\* A hint list that keeps the part of speech line of a challenge without one.
determine_hints_keep_empty(c) ==
    LET h1 == << HintLine("Part of Speech", c.pos) >>
        h2 == IF c.infinitive # "" THEN << HintLine("Infinitive", c.infinitive) >> ELSE <<>>
        h3 == IF c.hint # "" THEN << HintLine("Other Hints", c.hint) >> ELSE <<>>
        h4 == IF c.user_notes # "" THEN << HintLine("Your Notes", c.user_notes) >> ELSE <<>>
    IN  h1 \o h2 \o h3 \o h4

\* Prompt::determine_hints: one push per non-empty field, in this order.
determine_hints(c) ==
    LET h1 == IF c.pos # "" THEN << HintLine("Part of Speech", c.pos) >> ELSE <<>>
        h2 == IF c.infinitive # "" THEN << HintLine("Infinitive", c.infinitive) >> ELSE <<>>
        h3 == IF c.hint # "" THEN << HintLine("Other Hints", c.hint) >> ELSE <<>>
        h4 == IF c.user_notes # "" THEN << HintLine("Your Notes", c.user_notes) >> ELSE <<>>
    IN  h1 \o h2 \o h3 \o h4

\* A reveal that takes the first available hint instead of the last.
Help_front ==
    IF available_hints # <<>>
    THEN /\ display_hints' = Append(display_hints, Head(available_hints))
         /\ available_hints' = Tail(available_hints)
         /\ UNCHANGED props
    ELSE UNCHANGED <<props, available_hints, display_hints>>

\* A reveal that shows an empty line when no hint is left.
Help_push_default ==
    IF available_hints # <<>>
    THEN /\ display_hints' = Append(display_hints, available_hints[Len(available_hints)])
         /\ available_hints' = SubSeq(available_hints, 1, Len(available_hints) - 1)
         /\ UNCHANGED props
    ELSE /\ display_hints' = Append(display_hints, HintLine("", ""))
         /\ UNCHANGED <<props, available_hints>>

\* Prompt::update(Msg::Help): Vec::pop takes the last available hint, if any.
Help ==
    IF available_hints # <<>>
    THEN /\ display_hints' = Append(display_hints, available_hints[Len(available_hints)])
         /\ available_hints' = SubSeq(available_hints, 1, Len(available_hints) - 1)
         /\ UNCHANGED props
    ELSE UNCHANGED <<props, available_hints, display_hints>>

\* Prompt::changed with ctx.props().challenge = c
changed(c) ==
    IF props # c
    THEN /\ props' = c
         /\ available_hints' = determine_hints(c)
         /\ UNCHANGED display_hints
    ELSE UNCHANGED <<props, available_hints, display_hints>>

\* Prompt::view: the "give me a hint" link.
ShowsHintLink == available_hints # <<>>

\* The user clicks "give me a hint".
PromptHelp ==
    /\ ShowsHintLink
    /\ Len(display_hints) < MaxShown
    /\ Help
    /\ plast' = "Help"
    /\ UNCHANGED studyvars

\* The parent renders the Prompt again, with some challenge.
PromptChanged ==
    /\ \E c \in HintChallenges : changed(c)
    /\ plast' = "changed"
    /\ UNCHANGED studyvars

\* A page showing a Prompt: the Prompt is created with any challenge.
PromptInit ==
    /\ create_Study
    /\ \E c \in HintChallenges : create_Prompt(c)

PromptNext ==
    \/ PromptHelp
    \/ PromptChanged

PromptSpec == PromptInit /\ [][PromptNext]_vars

\* Msg::Help sent through the component's link whatever the page shows: the
\* handler as update runs it, also when no hint is left.
PromptHelpSent ==
    /\ Len(display_hints) < MaxShown
    /\ Help
    /\ plast' = IF available_hints = <<>> THEN "HelpNone" ELSE "Help"
    /\ UNCHANGED studyvars

PromptMsgNext ==
    \/ PromptHelpSent
    \/ PromptChanged

PromptMsgSpec == PromptInit /\ [][PromptMsgNext]_vars

Next ==
    \/ Rendered
    \/ UserInput
    \/ UserCheck
    \/ UserNext
    \/ FetchOk
    \/ FetchErr
    \/ SubmitOk
    \/ SubmitErr

Spec == Init /\ [][Next]_vars

\* The future spawned first among those in flight resolves, either way.
CompleteOldest ==
    /\ (FetchOk \/ FetchErr \/ SubmitOk \/ SubmitErr)
    /\ last'.pos = 1
    /\ Len(tasks') < Len(tasks)

\* The user sends a message.
UserStep == UserInput \/ UserCheck \/ UserNext

\* The texts followed when progress is checked: one draft, one verdict, one
\* error message.  No handler reads a text to decide what it does (update
\* branches on the message and on count(iterator) only), so the steps possible
\* with other texts are the same steps.
LiveTexts == { "", "Correct!", "network down" }

LiveNext == Next /\ last'.text \in LiveTexts

\* The same program when no spawned future stays pending for ever: the futures
\* have no timeout and no cancellation, and each ends by sending its message.
LiveSpec == Init /\ [][LiveNext]_vars /\ WF_vars(CompleteOldest /\ last'.text \in LiveTexts)

\* ------------------------------------------------------------ type sanity
TypeOK ==
    /\ study_mode \in StudyModes
    /\ iterator \in Batches
    /\ challenge \in Challenges \cup { DefaultChallenge }
    /\ answer \in Texts
    /\ err_msg \in Errors \cup { "" }
    /\ first_render \in BOOLEAN
    /\ Len(tasks) <= MaxTasks
    /\ batch \in Batches
    /\ advSince \in Nat
    /\ batchDone \in BOOLEAN

\* ================================================================= claims

\* C1 (as stated): after a batch of N >= 1 challenges, each of the first N
\* NextChallenge messages yields a challenge and the (N+1)-th schedules the fetch.
C1_Original ==
    (last.msg = "NextChallenge" /\ Len(batch) >= 1) =>
        IF advSince <= Len(batch)
        THEN last.sched = "none" /\ study_mode = "Challenge"
        ELSE last.sched = "fetch"

\* C1 (amended): UpdateList itself takes the first challenge of the batch, so
\* after a batch of N >= 1 challenges the k-th NextChallenge, k <= N - 1, yields
\* the (k+1)-th challenge of the batch, and the N-th (and every later one until
\* the next UpdateList) schedules a fetch instead of yielding a challenge.
C1_QueueExhaustion ==
    (last.msg = "NextChallenge" /\ Len(batch) >= 1) =>
        IF advSince + 1 <= Len(batch)
        THEN /\ last.sched = "none"
             /\ study_mode = "Challenge"
             /\ challenge = batch[advSince + 1]
             /\ iterator = SubSeq(batch, advSince + 2, Len(batch))
        ELSE /\ last.sched = "fetch"
             /\ iterator = <<>>

\* The second advance after a batch of two challenges schedules the fetch.
C1_Witness ==
    /\ last.msg = "NextChallenge"
    /\ Len(batch) = 2
    /\ advSince = 2
    /\ last.sched = "fetch"

\* C2 (as stated): NextChallenge processed with an empty queue schedules a
\* fetch and leaves the session loading; the mode does not remain Outcome.
C2_Original ==
    (last.msg = "NextChallenge" /\ last.sched = "fetch") => study_mode # "Outcome"

\* C3 (as stated): before the first UpdateList has been processed the page
\* never shows the zero-value challenge together with the answer input.
C3_Original ==
    (~first_render /\ ~batchDone) =>
        ~(ShowsAnswerInput /\ challenge = DefaultChallenge)

\* C4 (as stated): after an UpdateList with an empty list the mode is not
\* Challenge and the zero-value challenge is not presented.
C4_Original ==
    (last.msg = "UpdateList" /\ batch = <<>>) =>
        /\ study_mode # "Challenge"
        /\ ~(ShowsAnswerInput /\ challenge = DefaultChallenge)

\* C5 (as stated): in the Outcome and Error modes the current challenge is one
\* received in a batch, never the zero value.
C5_Original ==
    study_mode \in { "Outcome", "Error" } => challenge \in Challenges

\* C6: UpdateList with a non-empty list b, from any state, makes b[1] the
\* current challenge and the rest of b, in order, the whole queue; the error
\* text is empty and the page presents b[1]'s prompt.
C6_BatchReplacesQueue ==
    (last.msg = "UpdateList" /\ batch # <<>>) =>
        /\ challenge = Head(batch)
        /\ iterator = Tail(batch)
        /\ err_msg = ""
        /\ study_mode = "Challenge"
        /\ prompt = Head(batch).prompt
        /\ Displayed = Head(batch).prompt

\* A non-empty batch arrives in Outcome mode while challenges are left over.
C6_Witness ==
    /\ last.msg = "UpdateList"
    /\ Len(batch) >= 2
    /\ last.left > 0
    /\ last.from = "Outcome"

\* C7 (as stated): right after the current challenge changed, by UpdateList or
\* by a NextChallenge that yielded a challenge, the stored answer is empty.
C7_Original ==
    (\/ last.msg = "UpdateList"
     \/ (last.msg = "NextChallenge" /\ last.sched = "none")) => answer = ""

\* C8: NextChallenge processed in Outcome mode with a non-empty queue removes
\* exactly the head, makes it current, clears the error text, spawns nothing
\* and presents that challenge's prompt; the rest keeps its order.
C8_AdvanceTakesHead ==
    [][(last'.msg = "NextChallenge" /\ study_mode = "Outcome" /\ iterator # <<>>) =>
            /\ challenge' = Head(iterator)
            /\ iterator' = Tail(iterator)
            /\ err_msg' = ""
            /\ tasks' = tasks
            /\ study_mode' = "Challenge"
            /\ prompt' = Head(iterator).prompt]_vars

\* An advance from Outcome mode yielded a challenge and left a non-empty queue.
C8_Witness ==
    /\ last.msg = "NextChallenge"
    /\ last.from = "Outcome"
    /\ last.sched = "none"
    /\ last.left >= 2
    /\ iterator # <<>>

\* No step alters a task in flight: tasks only gains one at its end or loses one.
InFlightKept ==
    \/ tasks' = tasks
    \/ \E i \in 1..Len(tasks) : tasks' = Remove(tasks, i)
    \/ Len(tasks') = Len(tasks) + 1 /\ SubSeq(tasks', 1, Len(tasks)) = tasks

\* C9: CheckAnswer spawns exactly one submit task holding the challenge and
\* the answer as they are when it is processed, clears the error text and
\* leaves mode, queue, challenge and answer alone; no later step alters the
\* task in flight.
C9_SubmitSnapshot ==
    [][/\ last'.msg = "CheckAnswer" =>
            /\ tasks' = Append(tasks, SubmitTask(answer, challenge))
            /\ err_msg' = ""
            /\ study_mode' = study_mode
            /\ iterator' = iterator
            /\ challenge' = challenge
            /\ answer' = answer
       /\ InFlightKept]_vars

\* A submission is in flight and the draft has since been edited.
C9_Witness ==
    \E i \in 1..Len(tasks) :
        /\ tasks[i].op = "submit"
        /\ tasks[i].answer = "gato"
        /\ tasks[i].challenge \in Challenges
        /\ answer = ""
        /\ last.msg = "UpdateAnswer"

\* C10: ShowAnswerResponse(text), from any mode, leaves the mode Outcome, that
\* text as the displayed text and the error text empty.
C10_VerdictShown ==
    last.msg = "ShowAnswerResponse" =>
        /\ study_mode = "Outcome"
        /\ prompt = last.text
        /\ Displayed = last.text
        /\ err_msg = ""

\* A verdict arrives while the page shows an error.
C10_Witness ==
    /\ last.msg = "ShowAnswerResponse"
    /\ last.from = "Error"
    /\ last.text = "Correct!"

\* C11: FetchError(message), sent by a rejected fetch or by a rejected submit
\* and whatever the mode, leaves the mode Error with exactly that message as
\* the error text on display.
C11_FailureShown ==
    last.msg = "FetchError" =>
        /\ last.by \in { "fetch", "submit" }
        /\ study_mode = "Error"
        /\ err_msg = last.text
        /\ Displayed = last.text

\* A submit is rejected while the page shows a verdict.
C11_Witness ==
    /\ last.msg = "FetchError"
    /\ last.by = "submit"
    /\ last.from = "Outcome"
    /\ last.text = "malformed response"

\* C12 (as stated): once a rejected fetch has put the page in Error mode, the
\* user can send NextChallenge to start a new fetch.
C12_Original ==
    (study_mode = "Error" /\ last.msg = "FetchError" /\ last.by = "fetch") =>
        ShowsNextButton

\* C13 (as stated): in Error mode with no task in flight the page offers a
\* session action, submit or advance.
C13_Original ==
    (study_mode = "Error" /\ tasks = <<>>) => (ShowsCheckButton \/ ShowsNextButton)

\* C14: FetchError spawns no task; a step spawns at most one task, and only
\* when it processes CheckAnswer or NextChallenge from the user or is the first
\* render; a message sent by a task leaves one task fewer in flight.  (So the
\* tasks ever spawned number at most 1 plus the CheckAnswer and NextChallenge
\* messages processed.)
C14_NoAutomaticRetry ==
    [][/\ last'.msg = "FetchError" =>
            \E i \in 1..Len(tasks) : tasks' = Remove(tasks, i)
       /\ Len(tasks') > Len(tasks) =>
            \/ last'.msg \in { "CheckAnswer", "NextChallenge" } /\ last'.pos = 0
            \/ first_render /\ ~first_render'
       /\ Len(tasks') <= Len(tasks) + 1
       /\ last'.msg \in { "UpdateList", "ShowAnswerResponse", "FetchError" } =>
            Len(tasks') + 1 = Len(tasks)]_vars

\* A fetch was rejected and nothing is in flight afterwards.
C14_Witness ==
    /\ last.msg = "FetchError"
    /\ last.by = "fetch"
    /\ last.sched = "none"
    /\ tasks = <<>>
    /\ batchDone

\* C15: the UpdateList processed last decides the queue and the current
\* challenge, also when its fetch was started before the fetch whose UpdateList
\* was processed just before it.
C15_LastBatchWins ==
    last.msg = "UpdateList" =>
        IF batch = <<>>
        THEN iterator = <<>> /\ challenge = DefaultChallenge
        ELSE iterator = Tail(batch) /\ challenge = Head(batch)

\* Two fetches were in flight; the one started second was answered first and
\* left challenges queued, then the one started first was answered.
C15_Witness ==
    /\ last.msg = "UpdateList"
    /\ last.prev = "UpdateList"
    /\ last.prevpos > last.pos
    /\ last.left > 0
    /\ Len(batch) = 1

\* C16 (as stated): whenever UpdateList is processed the queue is empty.
C16_Original ==
    last.msg = "UpdateList" => last.left = 0

\* C16 (amended): whenever UpdateList is processed and no other UpdateList has
\* been processed since a fetch was last spawned, the queue is empty.
C16_RefillAfterExhaustion ==
    (last.msg = "UpdateList" /\ last.wasfresh) => last.left = 0

\* The refill asked for by an advance on an exhausted queue arrives.
C16_Witness ==
    /\ last.msg = "UpdateList"
    /\ last.wasfresh
    /\ last.from = "Outcome"
    /\ last.prev = "NextChallenge"
    /\ batch # <<>>

\* C17: of a submit and a fetch in flight together, the completion processed
\* second decides the mode: a verdict right after a batch leaves Outcome mode
\* showing the verdict, a batch right after a verdict leaves Challenge mode
\* showing the batch's first challenge.
C17_LastCompletionWins ==
    /\ (last.msg = "ShowAnswerResponse" /\ last.prev = "UpdateList") =>
            /\ study_mode = "Outcome"
            /\ Displayed = last.text
    /\ (last.msg = "UpdateList" /\ last.prev = "ShowAnswerResponse" /\ batch # <<>>) =>
            /\ study_mode = "Challenge"
            /\ challenge = Head(batch)
            /\ Displayed = Head(batch).prompt

\* The submit was started first and answered first; then the batch arrived.
C17_Witness ==
    /\ last.msg = "UpdateList"
    /\ last.prev = "ShowAnswerResponse"
    /\ last.prevpos = 1
    /\ last.pos = 1
    /\ last.from = "Outcome"
    /\ batch # <<>>

\* C18: a task leaves the tasks in flight only in a step that processes one
\* message sent by it, UpdateList or FetchError for a fetch, ShowAnswerResponse
\* or FetchError for a submit; and every such message ends exactly one task.
C18_OneMessagePerTask ==
    [][/\ Len(tasks') < Len(tasks) =>
            \E i \in 1..Len(tasks) :
                /\ tasks' = Remove(tasks, i)
                /\ last'.pos = i
                /\ last'.by = tasks[i].op
                /\ tasks[i].op = "fetch" => last'.msg \in { "UpdateList", "FetchError" }
                /\ tasks[i].op = "submit" => last'.msg \in { "ShowAnswerResponse", "FetchError" }
       /\ last'.msg \in { "UpdateList", "ShowAnswerResponse", "FetchError" } =>
            /\ Len(tasks') + 1 = Len(tasks)
            /\ last'.pos \in 1..Len(tasks)]_vars

\* The second of two tasks in flight, a submit, was rejected.
C18_Witness ==
    /\ last.msg = "FetchError"
    /\ last.by = "submit"
    /\ last.pos = 2
    /\ Len(tasks) = 1

\* C19: UpdateAnswer(t) stores t as the answer and leaves mode, queue, current
\* challenge and prompt alone; processed right after an UpdateAnswer with the
\* same t it changes no field of the component.
C19_DraftEdit ==
    [][last'.msg = "UpdateAnswer" =>
            /\ answer' = last'.text
            /\ UNCHANGED <<study_mode, iterator, challenge, prompt>>
            /\ last'.rep => UNCHANGED component]_vars

\* The same text was sent twice in a row.
C19_Witness ==
    /\ last.msg = "UpdateAnswer"
    /\ last.rep
    /\ answer = "gato"
    /\ batchDone

\* C20 (as stated): after each Help, the hints on display and the hints still
\* available number together the hints computed for the challenge shown.
C20_Original ==
    plast = "Help" =>
        Len(display_hints) + Len(available_hints) = Len(determine_hints(props))

\* C21 (as stated): whenever the Prompt takes a different challenge, no hint is
\* left on display and the available hints are those computed for the new
\* challenge.
C21_Original ==
    [][props' # props =>
            /\ display_hints' = <<>>
            /\ available_hints' = determine_hints(props')]_vars

\* s backwards.
Reverse(s) == [j \in 1..Len(s) |-> s[Len(s) - j + 1]]

\* C22: the Help messages processed for one challenge reveal its hints in the
\* reverse of the order determine_hints computed them in (notes, other hint,
\* infinitive, part of speech, without the absent ones): the hints still
\* available are the first ones of the computed list, and the hints revealed
\* for this challenge stand at the end of display_hints in the order of their
\* reveal, which is the computed list's end read backwards.
C22_ReverseReveal ==
    plast = "Help" =>
        LET all == determine_hints(props)
            k == Len(all) - Len(available_hints)
            n == Len(display_hints)
        IN  /\ Len(available_hints) < Len(all)
            /\ available_hints = SubSeq(all, 1, Len(available_hints))
            /\ k <= n
            /\ SubSeq(display_hints, n - k + 1, n) =
                   Reverse(SubSeq(all, Len(available_hints) + 1, Len(all)))

\* All four hints of a challenge have been revealed, the notes first.
C22_Witness ==
    /\ plast = "Help"
    /\ props = [pos |-> "noun", infinitive |-> "ser", hint |-> "animal", user_notes |-> "mine"]
    /\ available_hints = <<>>
    /\ display_hints = << HintLine("Your Notes", "mine"), HintLine("Other Hints", "animal"),
                          HintLine("Infinitive", "ser"), HintLine("Part of Speech", "noun") >>

\* The four hint lines of a challenge in precedence order, empty or not.
AllLines(c) ==
    << HintLine("Part of Speech", c.pos), HintLine("Infinitive", c.infinitive),
       HintLine("Other Hints", c.hint), HintLine("Your Notes", c.user_notes) >>

\* A hint line whose field has a value.
HasValue(line) == line[2] # ""

\* C23: the list determine_hints computes for a challenge is the lines for
\* part of speech, infinitive, other hint and user notes, in that order, of
\* exactly the fields that are not empty; with all four empty it is empty.
C23_HintsInOrder ==
    [][props' # props =>
            /\ available_hints' = SelectSeq(AllLines(props'), HasValue)
            /\ props' = NoHintChallenge => available_hints' = <<>>
            /\ \A j \in 1..Len(available_hints') : available_hints'[j][2] # ""]_vars

\* A challenge with a part of speech and notes only has just been taken.
C23_Witness ==
    /\ plast = "changed"
    /\ props = [pos |-> "noun", infinitive |-> "", hint |-> "", user_notes |-> "mine"]
    /\ available_hints = << HintLine("Part of Speech", "noun"), HintLine("Your Notes", "mine") >>

\* C24 (as stated): the challenge the Prompt is created with has its hints
\* available before any Help: if one of its hint fields is not empty, a hint
\* is available.
C24_Original ==
    (plast = "create" /\ determine_hints(props) # <<>>) =>
        /\ available_hints = determine_hints(props)
        /\ ShowsHintLink

\* C25: Help processed with no hint available changes nothing, so the link
\* stays hidden; and the page offers the hint link exactly when a hint is
\* available.
C25_HelpWhenExhausted ==
    [][/\ (plast' \in { "Help", "HelpNone" } /\ available_hints = <<>>) =>
            /\ UNCHANGED <<props, available_hints, display_hints>>
            /\ ~ShowsHintLink'
       /\ ShowsHintLink' <=> Len(available_hints') > 0]_vars

\* Every hint of the challenge is on display and Help was processed once more.
C25_Witness ==
    /\ plast = "HelpNone"
    /\ available_hints = <<>>
    /\ display_hints # <<>>
    /\ Len(display_hints) = Len(determine_hints(props))

\* C26: NextChallenge processed with an empty queue spawns a fetch whatever is
\* in flight, also another fetch; two fetches can be in flight together.
C26_NoFetchDedup ==
    [][(last'.msg = "NextChallenge" /\ iterator = <<>>) =>
            tasks' = Append(tasks, FetchTask(AwesomeId, Limit))]_vars

\* An advance on an empty queue has spawned a second fetch next to the first.
C26_Witness ==
    /\ last.msg = "NextChallenge"
    /\ last.sched = "fetch"
    /\ Len(tasks) = 2
    /\ tasks[1].op = "fetch"
    /\ tasks[2].op = "fetch"

\* C27: in Challenge mode the prompt on display is the prompt of the current
\* challenge, never a verdict text.
C27_PromptOfCurrent ==
    study_mode = "Challenge" =>
        /\ prompt = challenge.prompt
        /\ Displayed = challenge.prompt
        /\ prompt \notin Verdicts

\* A verdict was on display and the advance presents the next challenge.
C27_Witness ==
    /\ study_mode = "Challenge"
    /\ last.msg = "NextChallenge"
    /\ last.from = "Outcome"
    /\ challenge \in Challenges
    /\ prompt = challenge.prompt

\* C28 (as stated): a verdict put on display answers a submission made for the
\* challenge that is current when it is displayed.
C28_Original ==
    [][(last'.msg = "ShowAnswerResponse" /\ last'.pos \in 1..Len(tasks)) =>
            tasks[last'.pos].challenge = challenge']_vars

\* C29: in Error mode the error text is the text of the FetchError processed
\* last, which is the message processed last: nothing processed in Error mode
\* empties the error text and leaves the mode Error.
C29_ErrorTextKept ==
    study_mode = "Error" =>
        /\ last.msg = "FetchError"
        /\ err_msg = last.text
        /\ err_msg \in Errors
        /\ Displayed = last.text

\* A second failure arrived while the page showed the first.
C29_Witness ==
    /\ study_mode = "Error"
    /\ last.from = "Error"
    /\ last.prev = "FetchError"
    /\ err_msg = "malformed response"

\* C30: the queue and the current challenge change only in a step that
\* processes UpdateList or NextChallenge; UpdateAnswer, CheckAnswer,
\* ShowAnswerResponse and FetchError leave both alone; NextChallenge on an
\* empty queue also leaves challenge, prompt, answer and error text alone.
C30_Frame ==
    [][/\ (iterator' # iterator \/ challenge' # challenge) =>
            last'.msg \in { "UpdateList", "NextChallenge" }
       /\ last'.msg \in { "UpdateAnswer", "CheckAnswer", "ShowAnswerResponse", "FetchError" } =>
            UNCHANGED <<iterator, challenge>>
       /\ (last'.msg = "NextChallenge" /\ iterator = <<>>) =>
            UNCHANGED <<iterator, challenge, prompt, answer, err_msg>>]_vars

\* An advance on an empty queue left a verdict, a draft and a challenge alone.
C30_Witness ==
    /\ last.msg = "NextChallenge"
    /\ last.sched = "fetch"
    /\ last.left = 0
    /\ challenge \in Challenges
    /\ prompt \in Verdicts
    /\ answer = "gato"

\* C31: a fetch is spawned only with an empty queue, by the first render or by
\* a NextChallenge processed with the queue exhausted; never while challenges
\* are left; and no NextChallenge both yields a challenge and spawns a fetch.
C31_FetchOnlyWhenExhausted ==
    [][/\ (Len(tasks') > Len(tasks) /\ tasks'[Len(tasks')].op = "fetch") =>
            /\ iterator = <<>>
            /\ iterator' = <<>>
            /\ \/ first_render /\ ~first_render'
               \/ last'.msg = "NextChallenge" /\ last'.left = 0
       /\ (last'.msg = "NextChallenge" /\ iterator # <<>>) =>
            /\ challenge' = Head(iterator)
            /\ tasks' = tasks
       /\ (last'.msg = "NextChallenge" /\ iterator = <<>>) =>
            /\ Len(tasks') = Len(tasks) + 1
            /\ UNCHANGED <<challenge, study_mode>>]_vars

\* Every challenge of a batch of two was taken and the next advance refills.
C31_Witness ==
    /\ last.msg = "NextChallenge"
    /\ last.sched = "fetch"
    /\ last.left = 0
    /\ iterator = <<>>
    /\ Len(batch) = 2
    /\ advSince = 2
    /\ tasks = << FetchTask(AwesomeId, Limit) >>

\* C32: when no future stays pending for ever, the submit that is the oldest
\* task in flight leads to the state right after its completion is processed,
\* which is in Outcome or Error mode; the fetch that is the oldest task in
\* flight leads to the state right after its UpdateList or FetchError is
\* processed; every task in flight is the oldest one once those spawned before
\* it have completed; a completion processed for any task leaves the mode its
\* message sets; and once the user sends no more messages, no task stays in
\* flight.
C32_TasksComplete ==
    /\ \A b \in BOOLEAN :
          (tasks # <<>> /\ tasks[1].op = "submit" /\ last.flip = b) ~>
              (/\ last.flip # b
               /\ last.pos = 1
               /\ last.by = "submit"
               /\ last.msg \in { "ShowAnswerResponse", "FetchError" }
               /\ study_mode \in { "Outcome", "Error" })
    /\ \A b \in BOOLEAN :
          (tasks # <<>> /\ tasks[1].op = "fetch" /\ last.flip = b) ~>
              (/\ last.flip # b
               /\ last.pos = 1
               /\ last.by = "fetch"
               /\ last.msg \in { "UpdateList", "FetchError" })
    /\ [](last.msg = "ShowAnswerResponse" => study_mode = "Outcome")
    /\ [](last.msg = "FetchError" => study_mode = "Error")
    /\ [][\A i \in 2..Len(tasks) :
              \/ \E j \in i-1..i : j <= Len(tasks') /\ tasks'[j] = tasks[i]
              \/ tasks' = Remove(tasks, i)]_vars
    /\ <>[][~UserStep]_vars => <>[](tasks = <<>>)

\* A submit waited behind a fetch, became the oldest task and was answered.
C32_Witness ==
    /\ last.msg = "ShowAnswerResponse"
    /\ last.pos = 1
    /\ last.prevpos = 1
    /\ last.prev = "UpdateList"
    /\ study_mode = "Outcome"
    /\ tasks = <<>>

====
